---- MODULE Spec2Model ----
(***************************************************************************)
(* Model of NoiseTools.py (NoiseTools): rotate, resamp, resample,          *)
(* spectrum / ispectrum, make_f, halfwidth, peak_centered_spectrum,        *)
(* make_phase_continuous, unique and NumberOfBitsUsed.                     *)
(*                                                                         *)
(* Conventions.                                                            *)
(*  - The module is Python 2 code: "/" on two ints is floor division       *)
(*    (slice bounds such as (len(spec)+1)/2 and -N/2 depend on it).        *)
(*  - Python sequences are 0-indexed; TLA+ sequences are 1-indexed.  At(s, *)
(*    k) reads the Python index k, PySlice(s, a, b) is the slice s[a:b]    *)
(*    with Python's treatment of negative and out-of-range bounds.         *)
(*  - Floating point numbers are modelled by exact rationals (a numerator  *)
(*    and a denominator); rounding error is not modelled.                  *)
(*  - An array carries its numpy dtype: "i" (integer) or "d" (float).      *)
(***************************************************************************)
EXTENDS Integers, Sequences, FiniteSets, TLC

VARIABLES pc, op, args, result, raised, printed, i

vars == <<pc, op, args, result, raised, printed, i>>

(***************************************************************************)
(* Bounds of the model                                                     *)
(***************************************************************************)
MaxLen == 3        \* longest sequence handed to rotate
MaxElem == 3       \* elements of rotated sequences are 1..MaxElem
MaxRot == 4        \* rotate's n ranges over -MaxRot..MaxRot
MaxSrc == 4        \* longest source array handed to resamp
MaxSample == 1     \* samples of resamp / resample are -1..MaxSample
MaxN == 4          \* target lengths N are 1..MaxN
MaxPair == 2       \* longest x and y handed to resample
MaxX == 1          \* x-axis values of resample are 0..MaxX
MaxRe == 1         \* real parts of signal samples are -1..MaxRe
MaxIm == 1         \* imaginary parts of signal samples are 0..MaxIm
MaxFN == 6         \* make_f's N is 1..MaxFN
MaxNyq == 3        \* make_f's fnyquist is 1..MaxNyq
MaxSpec == 5       \* longest spectrum handed to halfwidth / peak_centered_spectrum
MaxMag == 1        \* spectrum values there are -1..MaxMag
MaxHW == 3         \* halfwidth arguments are 1..MaxHW
MaxPhi == 3        \* longest phase array
MaxPhase == 4      \* phases are -MaxPhase..MaxPhase (in units of pi/PiUnits)
MaxData == 4       \* longest data array handed to NumberOfBitsUsed
MaxLevel == 4      \* data values are 1..MaxLevel

(***************************************************************************)
(* Python / numpy primitives                                               *)
(***************************************************************************)
Min(a, b) == IF a <= b THEN a ELSE b

Max(a, b) == IF a >= b THEN a ELSE b

Abs(a) == IF a < 0 THEN 0 - a ELSE a

\* s[k] for a Python index 0 <= k < len(s)
At(s, k) == s[k + 1]

\* a slice bound as Python normalises it: negative bounds count from the end
SliceBound(k, L) == IF k < 0 THEN Max(k + L, 0) ELSE Min(k, L)

\* s[a:b]
PySlice(s, a, b) ==
  LET L == Len(s)
      lo == SliceBound(a, L)
      hi == SliceBound(b, L)
  IN  IF lo >= hi THEN << >> ELSE [k \in 1..(hi - lo) |-> s[lo + k]]

\* numpy.concatenate((a, b))
concatenate(a, b) == a \o b

\* all sequences over S of length 0..n
SeqsUpTo(S, n) == UNION {[1..k -> S] : k \in 0..n}

(***************************************************************************)
(* rotate(array, n)                                                        *)
(***************************************************************************)
\* rotate with the slice of the second half one element short
rotate_shortslice(array, n) ==
  LET m == 0 - n
  IN  IF Len(array) = 0 THEN array
      ELSE LET k == m % Len(array)
           IN  concatenate(PySlice(array, k, Len(array)), PySlice(array, 0, k - 1))

\* rotate without the sign reversal "n = -n"
rotate_nonegate(array, n) ==
  IF Len(array) = 0 THEN array
  ELSE LET k == n % Len(array)
       IN  concatenate(PySlice(array, k, Len(array)), PySlice(array, 0, k))

rotate(array, n) ==
  LET m == 0 - n
  IN  IF Len(array) = 0 THEN array
      ELSE LET k == m % Len(array)
           IN  concatenate(PySlice(array, k, Len(array)), PySlice(array, 0, k))

(***************************************************************************)
(* Exact arithmetic standing in for floating point                         *)
(***************************************************************************)
RECURSIVE GCD(_, _)
GCD(a, b) == IF b = 0 THEN a ELSE GCD(b, a % b)

\* the rational n/d (d > 0) in lowest terms
Rat(n, d) ==
  LET g == GCD(Abs(n), d)
  IN  [num |-> IF n < 0 THEN 0 - (Abs(n) \div g) ELSE n \div g, den |-> d \div g]

\* float -> int conversion of n/d (d > 0): truncation towards zero
Trunc(n, d) == IF n < 0 THEN 0 - (Abs(n) \div d) ELSE n \div d

RECURSIVE Pow(_, _)
Pow(b, e) == IF e = 0 THEN 1 ELSE b * Pow(b, e - 1)

RECURSIVE Sum(_)
Sum(s) == IF Len(s) = 0 THEN 0 ELSE Head(s) + Sum(Tail(s))

\* storing the float n/d into an array of the given dtype
Store(dtype, n, d) == IF dtype = "i" THEN Rat(Trunc(n, d), 1) ELSE Rat(n, d)

\* what "result[i] = average(slice)" leaves in result[i]
average_into(dtype, slice) == Store(dtype, Sum(slice), Len(slice))

(***************************************************************************)
(* resamp(x, N, type) and resample(x, y, N, type)                          *)
(***************************************************************************)
\* index = (arange(N+1)*dn).astype('i'); index[-1] = len(x)
LinIndex(L, N) == [k \in 0..N |-> IF k = N THEN L ELSE (k * L) \div N]

\* floor((L+1)^(k/N)): the largest r with r^N <= (L+1)^k
FloorRootPow(L, N, k) ==
  CHOOSE r \in 1..(L + 1) :
    /\ Pow(r, N) <= Pow(L + 1, k)
    /\ Pow(r + 1, N) > Pow(L + 1, k)

\* logindex = exp(arange(N+1)*dlog).astype('i') - 1; logindex[-1] = len(x)
LogIndex(L, N) == [k \in 0..N |-> IF k = N THEN L ELSE FloorRootPow(L, N, k) - 1]

\* the loop of the 'lin' branch
LinBins(dtype, data, N) ==
  LET index == LinIndex(Len(data), N)
  IN  [k \in 1..N |-> average_into(dtype, PySlice(data, index[k - 1], index[k]))]

\* the loop of the 'log' branch
LogBins(dtype, data, N) ==
  LET logindex == LogIndex(Len(data), N)
  IN  [k \in 1..N |->
        IF logindex[k - 1] # logindex[k]
        THEN average_into(dtype, PySlice(data, logindex[k - 1], logindex[k]))
        ELSE Store(dtype, At(data, logindex[k - 1]), 1)]

Returned(v) == [raised |-> "none", value |-> v, printed |-> FALSE]

Raised(e, p) == [raised |-> e, value |-> << >>, printed |-> p]

resamp(x, N, type) ==
  IF Len(x.data) <= N THEN Returned(x)
  ELSE IF type = "lin" THEN Returned([dtype |-> x.dtype, data |-> LinBins(x.dtype, x.data, N)])
  ELSE IF type = "log" THEN Returned([dtype |-> x.dtype, data |-> LogBins(x.dtype, x.data, N)])
  ELSE Raised("RuntimeError", FALSE)

\* resultx of the 'lin' branch: arange(N)*dx + x[0] + dx/2, dx = (x[-1]-x[0])/N
LinAxis(x, N) ==
  LET x0 == At(x, 0)
      xl == At(x, Len(x) - 1)
  IN  [k \in 1..N |-> Rat(2 * N * x0 + (2 * k - 1) * (xl - x0), 2 * N)]

\* resultx of the 'log' branch, exp(arange(N)*dlog + startlog + dlog/2), kept
\* symbolically: element k is start * (end/start)^((2k-1)/(2N))
LogAxis(x, N) ==
  LET start == IF At(x, 0) > 0 THEN At(x, 0) ELSE At(x, 1)
      end == At(x, Len(x) - 1)
  IN  [k \in 1..N |-> [start |-> start, end |-> end, expnum |-> 2 * k - 1, expden |-> 2 * N]]

resample(x, y, N, type) ==
  IF Len(x) # Len(y.data) THEN [raised |-> "none", value |-> << >>, printed |-> TRUE]
  ELSE IF Len(y.data) <= N THEN Returned(<<x, y>>)
  ELSE IF type = "lin"
    THEN Returned(<<LinAxis(x, N), [dtype |-> y.dtype, data |-> LinBins(y.dtype, y.data, N)]>>)
  ELSE IF type = "log"
    THEN Returned(<<LogAxis(x, N), [dtype |-> y.dtype, data |-> LogBins(y.dtype, y.data, N)]>>)
  ELSE Raised("TypeError", TRUE)


(***************************************************************************)
(* spectrum(signal), ispectrum(spec)                                       *)
(*                                                                         *)
(* A complex number is [re, im, den]: (re + im*j)/den, den > 0, in lowest  *)
(* terms.  numpy's fft / ifft are the discrete Fourier transform and its   *)
(* inverse; for the lengths 1, 2 and 4 the roots of unity are powers of j, *)
(* so the transform is exact over these numbers.                           *)
(***************************************************************************)
FFTLengths == {1, 2, 4}

CRat(re, im, den) ==
  LET g == GCD(GCD(Abs(re), Abs(im)), den)
      sdiv(a) == IF a < 0 THEN 0 - (Abs(a) \div g) ELSE a \div g
  IN  [re |-> sdiv(re), im |-> sdiv(im), den |-> den \div g]

CAdd(a, b) == CRat(a.re * b.den + b.re * a.den, a.im * b.den + b.im * a.den, a.den * b.den)

\* z * j^p
CMulJ(z, p) ==
  CASE p = 0 -> z
    [] p = 1 -> CRat(0 - z.im, z.re, z.den)
    [] p = 2 -> CRat(0 - z.re, 0 - z.im, z.den)
    [] p = 3 -> CRat(z.im, 0 - z.re, z.den)

\* z * n / d
CScale(z, n, d) == CRat(z.re * n, z.im * n, z.den * d)

RECURSIVE CSum(_)
CSum(s) == IF Len(s) = 0 THEN CRat(0, 0, 1) ELSE CAdd(Head(s), CSum(Tail(s)))

\* exp(-2*pi*j/N) = j^Twiddle(N) for N in FFTLengths
Twiddle(N) == (4 - (4 \div N)) % 4

\* numpy.fft.fft: X[k] = sum_n x[n] * exp(-2*pi*j*k*n/N)
fft(x) ==
  LET N == Len(x)
  IN  [k \in 1..N |->
        CSum([n \in 1..N |-> CMulJ(x[n], (Twiddle(N) * (k - 1) * (n - 1)) % 4)])]

\* numpy.fft.ifft: x[n] = (1/N) * sum_k X[k] * exp(+2*pi*j*k*n/N)
ifft(X) ==
  LET N == Len(X)
  IN  [n \in 1..N |->
        CScale(CSum([k \in 1..N |-> CMulJ(X[k], ((4 - Twiddle(N)) * (k - 1) * (n - 1)) % 4)]),
               1, N)]

spectrum(signal) == [k \in 1..Len(signal) |-> CScale(fft(signal)[k], 1, Len(signal))]

\* ispectrum without the factor len(spec)
ispectrum_unscaled(spec) == ifft(spec)

ispectrum(spec) == [n \in 1..Len(spec) |-> CScale(ifft(spec)[n], Len(spec), 1)]

(***************************************************************************)
(* make_f(N, fnyquist)                                                     *)
(***************************************************************************)
\* df*arange(N) - fnyquist with df = 2*fnyquist/N (fnyquist a float)
FreqRamp(N, fnyquist) == [k \in 1..N |-> Rat(2 * fnyquist * (k - 1) - fnyquist * N, N)]

make_f(N, fnyquist) == rotate(FreqRamp(N, fnyquist), (0 - N) \div 2)

(***************************************************************************)
(* halfwidth(spec), peak_centered_spectrum(spec, halfwidth)                *)
(***************************************************************************)
\* numpy.argmax(abs(a)) of a non-empty a: the first index of the maximum
argmax_abs(a) ==
  CHOOSE k \in 0..(Len(a) - 1) :
    /\ \A m \in 0..(Len(a) - 1) : Abs(At(a, m)) <= Abs(At(a, k))
    /\ \A m \in 0..(k - 1) : Abs(At(a, m)) < Abs(At(a, k))

\* 2**int(log(x)/log(2)) for x >= 1: the largest power of two <= x
Pow2Floor(x) == CHOOSE p \in {Pow(2, e) : e \in 0..x} : p <= x /\ 2 * p > x

halfwidth(spec) ==
  LET half == PySlice(spec, 0, (Len(spec) + 1) \div 2)
  IN  IF Len(half) = 0 THEN Raised("ValueError", FALSE)       \* argmax of an empty array
      ELSE LET maxpos == argmax_abs(half)
               x == Min(maxpos, Len(spec) \div 2 - 1 - maxpos)
           IN  IF x = 0 THEN Raised("OverflowError", TRUE)    \* print, then int(-inf)
               ELSE IF x < 0 THEN Raised("ValueError", FALSE) \* int(nan)
               ELSE Returned(Pow2Floor(x))

peak_centered_spectrum(spec, hw) ==
  IF hw > Len(spec) \div 2
  THEN [raised |-> "none", value |-> << >>, printed |-> TRUE]
  ELSE LET maxpos == argmax_abs(PySlice(spec, 0, (Len(spec) + 1) \div 2))
           spec0 == PySlice(spec, maxpos - hw, maxpos + hw)
       IN  Returned(rotate(spec0, 0 - hw))

(***************************************************************************)
(* make_phase_continuous(phi)                                              *)
(*                                                                         *)
(* Phases are multiples of pi/PiUnits, held as the integer multiple.       *)
(***************************************************************************)
PiUnits == 2

pi == PiUnits

\* the loop body without the remapping "if dphi > pi: dphi -= 2*pi"
phase_step_noremap(phi, k) ==
  LET dphi == (At(phi, k + 1) - At(phi, k)) % (2 * pi)
  IN  [phi EXCEPT ![k + 2] = At(phi, k) + dphi]

\* one iteration of the loop, for index k
phase_step(phi, k) ==
  LET dphi0 == (At(phi, k + 1) - At(phi, k)) % (2 * pi)
      dphi == IF dphi0 > pi THEN dphi0 - 2 * pi ELSE dphi0
  IN  [phi EXCEPT ![k + 2] = At(phi, k) + dphi]

(***************************************************************************)
(* unique(data), NumberOfBitsUsed(data)                                    *)
(***************************************************************************)
RECURSIVE Insert(_, _)
Insert(v, s) ==
  IF Len(s) = 0 THEN <<v>>
  ELSE IF v <= Head(s) THEN <<v>> \o s
  ELSE <<Head(s)>> \o Insert(v, Tail(s))

\* copy.sort()
RECURSIVE Sorted(_)
Sorted(s) == IF Len(s) = 0 THEN << >> ELSE Insert(Head(s), Sorted(Tail(s)))

\* numpy.compress(cond, a): the elements of a where cond holds, in order
RECURSIVE compress(_, _)
compress(cond, a) ==
  IF Len(cond) = 0 \/ Len(a) = 0 THEN << >>
  ELSE (IF Head(cond) THEN <<Head(a)>> ELSE << >>) \o compress(Tail(cond), Tail(a))

\* numpy.diff(a) > 0
diff_positive(a) == [k \in 1..Max(Len(a) - 1, 0) |-> a[k + 1] - a[k] > 0]

unique(data) ==
  LET copy == Sorted(data)
  IN  compress(diff_positive(copy), PySlice(copy, 0, 0 - 1))

\* log(1.*n)/log(2.): -inf for n = 0, else floor(log2 n) and whether it is exact
log2_of(n) ==
  IF n = 0 THEN [neginf |-> TRUE, floor |-> 0, exact |-> FALSE]
  ELSE LET f == CHOOSE e \in 0..n : Pow(2, e) <= n /\ Pow(2, e + 1) > n
       IN  [neginf |-> FALSE, floor |-> f, exact |-> Pow(2, f) = n]

NumberOfBitsUsed(data) == log2_of(Len(unique(data)))

(***************************************************************************)
(* State machine: one call of a library function per behaviour             *)
(***************************************************************************)
NoArgs == [none |-> TRUE]

Init ==
  /\ pc = "idle"
  /\ op = "none"
  /\ args = NoArgs
  /\ result = << >>
  /\ raised = "none"
  /\ printed = FALSE
  /\ i = 0

\* r = rotate(array, n)
Rotate ==
  /\ pc = "idle"
  /\ \E array \in SeqsUpTo(1..MaxElem, MaxLen), n \in (0 - MaxRot)..MaxRot :
       /\ args' = [array |-> array, n |-> n]
       /\ result' = rotate(array, n)
  /\ op' = "rotate"
  /\ pc' = "done"
  /\ UNCHANGED <<raised, printed, i>>

\* rotate(r, -n), applied to the result r of rotate(array, n)
RotateBack ==
  /\ pc = "done"
  /\ op = "rotate"
  /\ result' = rotate(result, 0 - args.n)
  /\ op' = "rotate_back"
  /\ UNCHANGED <<pc, args, raised, printed, i>>

Dtypes == {"i", "d"}

Types == {"lin", "log", "cubic"}

Samples == (0 - 1)..MaxSample

\* r = resamp(x, N, type)
Resamp ==
  /\ pc = "idle"
  /\ \E dtype \in Dtypes, data \in SeqsUpTo(Samples, MaxSrc), N \in 1..MaxN, type \in Types :
       LET x == [dtype |-> dtype, data |-> data]
           r == resamp(x, N, type)
       IN  /\ args' = [x |-> x, N |-> N, type |-> type]
           /\ result' = r.value
           /\ raised' = r.raised
           /\ printed' = r.printed
  /\ op' = "resamp"
  /\ pc' = "done"
  /\ UNCHANGED i

\* r = resample(x, y, N, type)
Resample ==
  /\ pc = "idle"
  /\ \E x \in SeqsUpTo(0..MaxX, MaxPair), dtype \in Dtypes,
        data \in SeqsUpTo(0..MaxX, MaxPair), N \in 1..MaxN, type \in Types :
       LET y == [dtype |-> dtype, data |-> data]
           r == resample(x, y, N, type)
       IN  /\ args' = [x |-> x, y |-> y, N |-> N, type |-> type]
           /\ result' = r.value
           /\ raised' = r.raised
           /\ printed' = r.printed
  /\ op' = "resample"
  /\ pc' = "done"
  /\ UNCHANGED i

Signals == UNION {[1..N -> {CRat(re, im, 1) : re \in (0 - 1)..MaxRe, im \in 0..MaxIm}] : N \in FFTLengths}

\* r = spectrum(signal)
Spectrum ==
  /\ pc = "idle"
  /\ \E signal \in Signals :
       /\ args' = [signal |-> signal]
       /\ result' = spectrum(signal)
  /\ op' = "spectrum"
  /\ pc' = "done"
  /\ UNCHANGED <<raised, printed, i>>

\* ispectrum(r), applied to the result r of spectrum(signal)
Ispectrum ==
  /\ pc = "done"
  /\ op = "spectrum"
  /\ result' = ispectrum(result)
  /\ op' = "ispectrum"
  /\ UNCHANGED <<pc, args, raised, printed, i>>

\* r = make_f(N, fnyquist)
MakeF ==
  /\ pc = "idle"
  /\ \E N \in 1..MaxFN, fnyquist \in 1..MaxNyq :
       /\ args' = [N |-> N, fnyquist |-> fnyquist]
       /\ result' = make_f(N, fnyquist)
  /\ op' = "make_f"
  /\ pc' = "done"
  /\ UNCHANGED <<raised, printed, i>>

Spectra == SeqsUpTo((0 - 1)..MaxMag, MaxSpec)

\* r = halfwidth(spec)
Halfwidth ==
  /\ pc = "idle"
  /\ \E spec \in Spectra :
       LET r == halfwidth(spec)
       IN  /\ args' = [spec |-> spec]
           /\ result' = r.value
           /\ raised' = r.raised
           /\ printed' = r.printed
  /\ op' = "halfwidth"
  /\ pc' = "done"
  /\ UNCHANGED i

\* r = peak_centered_spectrum(spec, halfwidth)
PeakCenteredSpectrum ==
  /\ pc = "idle"
  /\ \E spec \in Spectra, hw \in 1..MaxHW :
       LET r == peak_centered_spectrum(spec, hw)
       IN  /\ args' = [spec |-> spec, halfwidth |-> hw]
           /\ result' = r.value
           /\ raised' = r.raised
           /\ printed' = r.printed
  /\ op' = "peak_centered_spectrum"
  /\ pc' = "done"
  /\ UNCHANGED i

\* make_phase_continuous(phi) is entered; result is the array phi, changed in place
MakePhaseContinuous ==
  /\ pc = "idle"
  /\ \E phi \in SeqsUpTo((0 - MaxPhase)..MaxPhase, MaxPhi) :
       /\ args' = [phi |-> phi]
       /\ result' = phi
  /\ op' = "make_phase_continuous"
  /\ pc' = "loop"
  /\ i' = 0
  /\ UNCHANGED <<raised, printed>>

\* one iteration of "for i in range(len(phi)-1)"
PhaseStep ==
  /\ pc = "loop"
  /\ i < Len(result) - 1
  /\ result' = phase_step(result, i)
  /\ i' = i + 1
  /\ UNCHANGED <<pc, op, args, raised, printed>>

\* the loop is exhausted and make_phase_continuous returns
PhaseReturn ==
  /\ pc = "loop"
  /\ i >= Len(result) - 1
  /\ pc' = "done"
  /\ UNCHANGED <<op, args, result, raised, printed, i>>

\* r = NumberOfBitsUsed(data)
NumberOfBits ==
  /\ pc = "idle"
  /\ \E data \in SeqsUpTo(1..MaxLevel, MaxData) :
       /\ args' = [data |-> data]
       /\ result' = NumberOfBitsUsed(data)
  /\ op' = "NumberOfBitsUsed"
  /\ pc' = "done"
  /\ UNCHANGED <<raised, printed, i>>

Next ==
  \/ Rotate
  \/ RotateBack
  \/ Resamp
  \/ Resample
  \/ Spectrum
  \/ Ispectrum
  \/ MakeF
  \/ Halfwidth
  \/ PeakCenteredSpectrum
  \/ MakePhaseContinuous
  \/ PhaseStep
  \/ PhaseReturn
  \/ NumberOfBits

Spec == Init /\ [][Next]_vars

(***************************************************************************)
(* Properties                                                              *)
(***************************************************************************)
\* an exception raised in place of a printed diagnostic and a sentinel result
ExplicitFailure == raised # "none" /\ ~printed

\* C1: rotate has an inverse: rotate(rotate(seq, n), -n) = seq for every seq
\* (the empty one included) and every integer n; rotate(seq, 0) = seq; rotate
\* of the empty sequence is the empty sequence.
RotateHasInverse ==
  /\ (op = "rotate_back" => result = args.array)
  /\ (op = "rotate" /\ args.n = 0 => result = args.array)
  /\ (op = "rotate" /\ Len(args.array) = 0 => result = << >>)

\* a round trip through a negative n with |n| >= len(seq) that moved elements
RotateHasInverseWitness ==
  /\ op = "rotate_back"
  /\ args.array = <<1, 2, 3>>
  /\ args.n = 0 - 4
  /\ result = <<1, 2, 3>>

\* C2 as stated: rotate(seq, n) shifts left, result[i] = seq[(i + n) mod L]
\* for every non-empty seq of length L and every i in 0..L-1.
RotateShiftsLeft ==
  op = "rotate" /\ Len(args.array) > 0 =>
    \A k \in 0..(Len(args.array) - 1) :
      At(result, k) = At(args.array, (k + args.n) % Len(args.array))

\* C2 amended: rotate(seq, n) shifts right, result[i] = seq[(i - n) mod L]
\* for every non-empty seq of length L and every i in 0..L-1, so the element
\* originally at index (-n mod L) is at index 0 of the result.
RotateShiftsRight ==
  op = "rotate" /\ Len(args.array) > 0 =>
    /\ Len(result) = Len(args.array)
    /\ \A k \in 0..(Len(args.array) - 1) :
         At(result, k) = At(args.array, (k - args.n) % Len(args.array))

\* rotate([1, 2, 3], 1) is [3, 1, 2]
RotateShiftsRightWitness ==
  /\ op = "rotate"
  /\ args.array = <<1, 2, 3>>
  /\ args.n = 1
  /\ result = <<3, 1, 2>>

\* C3: resamp(x, N, 'lin') with 1 <= N < len(x) returns exactly N values, and
\* output[i] is the arithmetic mean of x[floor(i*dn) .. floor((i+1)*dn) - 1],
\* dn = len(x)/N, the last bin ending at len(x), for every source sequence.
ResampLinIsBinMean ==
  op = "resamp" /\ args.type = "lin" /\ 1 <= args.N /\ args.N < Len(args.x.data) =>
    LET L == Len(args.x.data)
        N == args.N
        lo(k) == (k * L) \div N
        hi(k) == IF k = N - 1 THEN L ELSE ((k + 1) * L) \div N
        bin(k) == [m \in 1..(hi(k) - lo(k)) |-> At(args.x.data, lo(k) + m - 1)]
    IN  /\ raised = "none"
        /\ Len(result.data) = N
        /\ \A k \in 0..(N - 1) :
             At(result.data, k).num * Len(bin(k)) = Sum(bin(k)) * At(result.data, k).den

\* C4: resample(x, y, N, type) ends in an explicit failure, never a sentinel
\* result, exactly when len(x) # len(y) or type is neither 'lin' nor 'log', and
\* returns a result otherwise; likewise resamp(x, N, type) for an unknown type.
ResampleFailsOnInvalidInputOnly ==
  /\ op = "resample" =>
       /\ ExplicitFailure <=>
            (Len(args.x) # Len(args.y.data) \/ args.type \notin {"lin", "log"})
       /\ ~ExplicitFailure => raised = "none" /\ ~printed
  /\ op = "resamp" =>
       /\ ExplicitFailure <=> args.type \notin {"lin", "log"}
       /\ ~ExplicitFailure => raised = "none" /\ ~printed

\* the values occurring in a sequence
Range(s) == {s[k] : k \in 1..Len(s)}

\* C5: NumberOfBitsUsed(data) is log2 of the number of distinct values in
\* data: non-empty data with exactly 2^k distinct values gives k.
BitsUsedIsLog2OfLevels ==
  op = "NumberOfBitsUsed" /\ Len(args.data) > 0 =>
    \A k \in 0..MaxData :
      Cardinality(Range(args.data)) = Pow(2, k) =>
        result = [neginf |-> FALSE, floor |-> k, exact |-> TRUE]

\* C6: after make_phase_continuous(phi) every element is congruent modulo
\* 2*pi to its value before the call, phi[0] is unchanged, and every
\* consecutive difference phi[i+1] - phi[i] lies in (-pi, pi].
PhaseIsUnwrapped ==
  op = "make_phase_continuous" /\ pc = "done" =>
    /\ Len(result) = Len(args.phi)
    /\ \A k \in 1..Len(result) : (result[k] - args.phi[k]) % (2 * pi) = 0
    /\ Len(result) > 0 => result[1] = args.phi[1]
    /\ \A k \in 1..(Len(result) - 1) :
         /\ result[k + 1] - result[k] > 0 - pi
         /\ result[k + 1] - result[k] <= pi

\* [0, 2*pi - u, 2*pi] is unwrapped to [0, -u, 0], u = pi/PiUnits
PhaseIsUnwrappedWitness ==
  /\ op = "make_phase_continuous"
  /\ pc = "done"
  /\ args.phi = <<0, 2 * pi - 1, 2 * pi>>
  /\ result = <<0, 0 - 1, 0>>

\* C7: make_f(N, fnyquist) has length N and, with df = 2*fnyquist/N, holds
\* k*df at index k for 0 <= k < N/2 and (k - N)*df for N/2 <= k < N, for every
\* N >= 1, even or odd.
MakeFIsUnshiftedAxis ==
  op = "make_f" =>
    /\ Len(result) = args.N
    /\ \A k \in 0..(args.N - 1) :
         At(result, k) = IF 2 * k < args.N
                         THEN Rat(2 * args.fnyquist * k, args.N)
                         ELSE Rat(2 * args.fnyquist * (k - args.N), args.N)

\* C8: ispectrum(spectrum(x)) = x for every real or complex x of length >= 1.
SpectrumRoundTrip == op = "ispectrum" => result = args.signal

\* a complex signal of length 4 with a non-constant spectrum went both ways
SpectrumRoundTripWitness ==
  /\ op = "ispectrum"
  /\ Len(args.signal) = 4
  /\ \E k \in 1..4 : args.signal[k].im # 0
  /\ args.signal[1] # args.signal[2]
  /\ result = args.signal

\* C9: peak_centered_spectrum(spec, halfwidth) reports an error when
\* halfwidth > N/2; for every spec and 1 <= halfwidth <= N/2 it returns a
\* window of length 2*halfwidth whose index 0 holds spec[maxpos].
PeakIsAtWindowStart ==
  op = "peak_centered_spectrum" =>
    LET N == Len(args.spec)
        hw == args.halfwidth
    IN  /\ hw > N \div 2 => printed \/ raised # "none"
        /\ 1 <= hw /\ hw <= N \div 2 =>
             /\ raised = "none"
             /\ Len(result) = 2 * hw
             /\ At(result, 0) =
                  At(args.spec, argmax_abs(PySlice(args.spec, 0, (N + 1) \div 2)))

\* C10: halfwidth(spec) fails with an explicit error, instead of printing a
\* message and continuing, whenever x = min(maxpos, N/2 - 1 - maxpos) is 0.
HalfwidthFailsAtZero ==
  op = "halfwidth" /\ Len(args.spec) > 0 =>
    LET N == Len(args.spec)
        maxpos == argmax_abs(PySlice(args.spec, 0, (N + 1) \div 2))
    IN  Min(maxpos, N \div 2 - 1 - maxpos) = 0 => ExplicitFailure

====
